---- MODULE Spec2Model ----
(***************************************************************************)
(* Model of josephed37/contract-classifier.                                *)
(*                                                                         *)
(* Two parts of the repository are modelled:                               *)
(*   - the chunking client get_probabilities_for_lime of demo.py, which    *)
(*     posts the fragments LIME hands it to /classify-explain-batch in     *)
(*     chunks of 64 and rebuilds one row of probabilities per fragment;    *)
(*   - the FastAPI service: MLService (load, predict), the two endpoints   *)
(*     and the pydantic request schemas.                                   *)
(*                                                                         *)
(* A text is a sequence of one-character strings.  A float is a fixed      *)
(* point number, One standing for 1.0.  A Python dict is a function whose  *)
(* domain is its key set; a list is a sequence.                            *)
(***************************************************************************)
EXTENDS Integers, Sequences, FiniteSets, TLC

\* ------------------------------------------------------------------ bounds

\* The inputs of the client have up to MaxFull full chunks ...
MaxFull == 2
\* ... followed by up to MaxExtra more fragments.
MaxExtra == 2
\* /classify is sent texts from MaxBelow characters under the minimum length.
MaxBelow == 1
\* /classify-explain-batch is sent every list of up to MaxBatch fragments.
MaxBatch == 3
\* The service handles calls until the tokenizer or the model has been invoked
\* MaxCalls times.
MaxCalls == 2

\* ------------------------------------------------------------- Python values

\* 1.0 in fixed point.
One == 100

Min(a, b) == IF a < b THEN a ELSE b

\* s[lo:hi] of Python, lo and hi counted from 0, hi clipped to len(s).
Slice(s, lo, hi) == SubSeq(s, lo + 1, Min(hi, Len(s)))

\* The characters str.isspace() counts as whitespace, among those of the model.
Whitespace == {" "}

\* str.isspace(): at least one character, and all of them whitespace.
isspace(t) == Len(t) > 0 /\ \A k \in 1..Len(t) : t[k] \in Whitespace

\* dict.get(key, default)
DictGet(d, key, default) == IF key \in DOMAIN d THEN d[key] ELSE default

\* The empty dict {}.
EmptyDict == [x \in {} |-> 0]

\* ------------------------------------------------------------ demo.py: client

CLASS_NAMES == <<"Employment", "NDA", "Partnership", "SLA", "Vendor">>

chunk_size == 64

\* [1.0 / len(CLASS_NAMES)] * len(CLASS_NAMES)
UniformRow == [k \in 1..Len(CLASS_NAMES) |-> One \div Len(CLASS_NAMES)]

\* [[1.0 / len(CLASS_NAMES)] * len(CLASS_NAMES)] * n
UniformRows(n) == [k \in 1..n |-> UniformRow]

\* Mutant of ChunkAt: the slice stops one fragment early.
ChunkAtShort(ts, i) == Slice(ts, i, i + chunk_size - 1)

\* texts[i:i + chunk_size]
ChunkAt(ts, i) == Slice(ts, i, i + chunk_size)

\* Mutant of IsValidText: the isspace() test is left out.
IsValidTextNoSpaceTest(t) == Len(t) > 0

\* t and not t.isspace()
IsValidText(t) == Len(t) > 0 /\ ~isspace(t)

\* Mutant of ValidTexts: the chunk is sent unfiltered.
ValidTextsUnfiltered(chunk) == chunk

\* [t for t in chunk if t and not t.isspace()]
ValidTexts(chunk) == SelectSeq(chunk, IsValidText)

\* Mutant of ResultMap: the first pair with a text wins, not the last.
ResultMapFirstWins(valid, probs_list) ==
    LET m == Min(Len(valid), Len(probs_list))
    IN  [t \in {valid[k] : k \in 1..m} |->
            probs_list[CHOOSE k \in 1..m :
                          valid[k] = t /\ \A j \in 1..(k - 1) : valid[j] # t]]

\* {text: probs for text, probs in zip(valid_texts_in_chunk, probs_list)}:
\* zip stops at the shorter list, and a later pair overwrites an earlier one
\* with the same text.
ResultMap(valid, probs_list) ==
    LET m == Min(Len(valid), Len(probs_list))
    IN  [t \in {valid[k] : k \in 1..m} |->
            probs_list[CHOOSE k \in 1..m :
                          valid[k] = t /\ \A j \in (k + 1)..m : valid[j] # t]]

\* Mutant of ProbsInLabelOrder: a missing label gets the uniform share.
ProbsInLabelOrderUniformDefault(probs_dict) ==
    [k \in 1..Len(CLASS_NAMES) |->
        DictGet(probs_dict, CLASS_NAMES[k], One \div Len(CLASS_NAMES))]

\* [probs_dict.get(name, 0.0) for name in CLASS_NAMES]
ProbsInLabelOrder(probs_dict) ==
    [k \in 1..Len(CLASS_NAMES) |-> DictGet(probs_dict, CLASS_NAMES[k], 0)]

\* Mutant of RowFor: a text without an entry gets a row of zeros.
RowForMissingZero(result_map, original_text) ==
    IF original_text \in DOMAIN result_map
       /\ DOMAIN result_map[original_text] # {}
    THEN ProbsInLabelOrder(result_map[original_text])
    ELSE [k \in 1..Len(CLASS_NAMES) |-> 0]

\* The body of "for original_text in chunk": the row appended for one text.
\* result_map.get(original_text) is None for a missing key, and both None and
\* the empty dict are false in "if probs_dict".
RowFor(result_map, original_text) ==
    IF original_text \in DOMAIN result_map
       /\ DOMAIN result_map[original_text] # {}
    THEN ProbsInLabelOrder(result_map[original_text])
    ELSE UniformRow

\* Mutant of ExpandChunk: a row is appended for the texts sent only.
ExpandChunkSentOnly(chunk, result_map) ==
    [k \in 1..Len(SelectSeq(chunk, IsValidText)) |->
        RowFor(result_map, SelectSeq(chunk, IsValidText)[k])]

\* The rows the loop over chunk appends.
ExpandChunk(chunk, result_map) ==
    [k \in 1..Len(chunk) |-> RowFor(result_map, chunk[k])]

\* response.raise_for_status(): HTTPError for a 4xx or 5xx status.
RaisesForStatus(status) == status >= 400 /\ status < 600

\* requests.post(...) followed by raise_for_status(): the outcomes that raise
\* a requests.exceptions.RequestException.
RaisesRequestException(outcome) ==
    \/ outcome.kind \in {"ConnectionError", "Timeout"}
    \/ outcome.kind = "http" /\ RaisesForStatus(outcome.status)

\* ---------------------------------------------------------- the client's inputs

\* The mappings a batch response is made of: two full distributions, one whose
\* label names do not all match CLASS_NAMES, and the empty mapping.
DistA == [Employment |-> 60, NDA |-> 10, Partnership |-> 10, SLA |-> 10, Vendor |-> 10]
DistB == [Employment |-> 5, NDA |-> 80, Partnership |-> 5, SLA |-> 5, Vendor |-> 5]
DistPartial == [NDA |-> 70, Other |-> 30]
Dists == <<DistA, DistB, DistPartial, EmptyDict>>

\* A list of len mappings, cycling through Dists.
GenProbs(len) == [p \in 1..len |-> Dists[(p % Len(Dists)) + 1]]

\* The lengths of the list a 200 response carries for a request of n texts.
ReplyLens(n) == {l \in {n - 1, n, n + 1} : l >= 0}

\* The JSON bodies of a 200 response: an object with or without the field
\* all_probabilities, which holds a list of label -> float mappings.
Bodies(n) ==
    {[status |-> "ok"]}
    \cup {[all_probabilities |-> GenProbs(l)] : l \in ReplyLens(n)}

ErrorBody == [detail |-> "error"]

\* What a posted request can come to.
Outcomes(n) ==
    {[kind |-> k, status |-> 0, body |-> ErrorBody] : k \in {"ConnectionError", "Timeout"}}
    \cup {[kind |-> "http", status |-> s, body |-> ErrorBody] : s \in {422, 500}}
    \cup {[kind |-> "http", status |-> 200, body |-> b] : b \in Bodies(n)}

\* The fragment at position pos (from 0) of chunk c (from 0), which is of the
\* given kind: the same text throughout; empty and whitespace-only texts;
\* texts and blanks alternating; or a text no other position of the input has.
Alphabet == <<"a", "b", "c", "d", "e", "f", "g", "h">>
Frag(kind, c, pos) ==
    CASE kind = "same" -> <<"a">>
      [] kind = "blank" -> IF pos % 2 = 0 THEN <<>> ELSE <<" ">>
      [] kind = "mixed" ->
            CASE pos % 4 = 0 -> <<"a">>
              [] pos % 4 = 1 -> <<>>
              [] pos % 4 = 2 -> <<"b", " ">>
              [] OTHER -> <<" ", " ">>
      [] OTHER -> <<Alphabet[(c % Len(Alphabet)) + 1],
                    Alphabet[((pos \div Len(Alphabet)) % Len(Alphabet)) + 1],
                    Alphabet[(pos % Len(Alphabet)) + 1]>>

Kinds == {"same", "blank", "mixed", "distinct"}
KindCycle == <<"distinct", "blank", "same", "mixed">>

\* The kinds of an input's chunks: all chunks of one kind, or the chunks going
\* through KindCycle from some kind on.
InputKinds ==
    {[c \in 0..MaxFull |-> kind] : kind \in Kinds}
    \cup {[c \in 0..MaxFull |-> KindCycle[((c + r) % Len(KindCycle)) + 1]] :
             r \in 0..(Len(KindCycle) - 1)}

InputLens ==
    {c * chunk_size + e : c \in 0..MaxFull, e \in 0..MaxExtra}
    \cup {c * chunk_size - 1 : c \in 1..MaxFull}

\* The list of n fragments whose c-th chunk is of kind kinds[c].
BuildTexts(n, kinds) ==
    [k \in 1..n |-> Frag(kinds[(k - 1) \div chunk_size], (k - 1) \div chunk_size,
                          (k - 1) % chunk_size)]

InputTexts == {BuildTexts(n, kinds) : n \in InputLens, kinds \in InputKinds}

\* ------------------------------------------------- the service: pure parts

\* None, as the value of MLService.model and MLService.tokenizer.
None == "None"

\* What MLService.load can come to: the model directory is missing, one of its
\* three steps raises, or all of it runs.
LoadOutcomes == {"no_path", "model_raises", "to_raises", "tokenizer_raises", "ok"}

\* schemas.py: ContractRequest.text has min_length 50.
min_length == 50

\* schemas.py: BatchContractRequest.texts has min_items 1 and max_items 5000.
min_items == 1
max_items == 5000

\* Mutant of ValidContractRequest: any non-empty text is accepted.
ValidContractRequestNonEmpty(request) == Len(request.text) >= 1

\* pydantic's validation of a ContractRequest.
ValidContractRequest(request) == Len(request.text) >= min_length

\* pydantic's validation of a BatchContractRequest.
ValidBatchRequest(request) ==
    Len(request.texts) >= min_items /\ Len(request.texts) <= max_items

\* A Python exception, and the absence of one.
Exc(type, msg) == [type |-> type, msg |-> msg]
NoExc == Exc("None", "")

NotLoadedError == Exc("RuntimeError", "Model is not loaded. Call the load() method first.")

\* The attributes an MLService object has: those __init__ sets and the methods
\* the class defines.
MLServiceAttrs == {"model", "tokenizer", "device", "load", "predict"}

\* "'MLService' object has no attribute '<name>'": the message is modelled by
\* the attribute's name.
NoAttributeError(name) == Exc("AttributeError", name)

\* model.config.id2label of the loaded model: class id (from 0) -> label.
id2label(class_id) == CLASS_NAMES[class_id + 1]

\* Mutant of TorchMax: the maximal value with the index of the last entry.
TorchMaxLastIndex(probabilities) ==
    <<probabilities[CHOOSE k \in 1..Len(probabilities) :
                       \A j \in 1..Len(probabilities) : probabilities[j] <= probabilities[k]],
      Len(probabilities) - 1>>

\* torch.max(probabilities, dim=1): the maximal value and the index (from 0) of
\* its first occurrence.
TorchMax(probabilities) ==
    LET k == CHOOSE k \in 1..Len(probabilities) :
                /\ \A j \in 1..Len(probabilities) : probabilities[j] <= probabilities[k]
                /\ \A j \in 1..(k - 1) : probabilities[j] < probabilities[k]
    IN  <<probabilities[k], k - 1>>

\* What the tokenizer and the model do with one text: one of them raises, or
\* the softmax of the logits is some probability vector.
ProbVectors == {<<60, 10, 10, 10, 10>>, <<5, 5, 5, 5, 80>>, <<10, 40, 40, 5, 5>>, <<20, 20, 20, 20, 20>>}
Inferences ==
    {[raises |-> at, exc |-> Exc("RuntimeError", "CUDA out of memory"), probabilities |-> <<>>] :
        at \in {"tokenizer", "model"}}
    \cup {[raises |-> "tokenizer", exc |-> Exc("TypeError", "text input must be of type str"),
           probabilities |-> <<>>]}
    \cup {[raises |-> "nothing", exc |-> NoExc, probabilities |-> p] : p \in ProbVectors}

\* The text of n characters "a".
TextOfLen(n) == [k \in 1..n |-> "a"]

\* The requests /classify is sent: texts around the minimum length.
ContractRequests ==
    {[text |-> TextOfLen(n)] : n \in (min_length - MaxBelow)..(min_length + 1)}
    \cup {[text |-> [k \in 1..min_length |-> " "]]}

\* The fragments of a batch request: empty, whitespace only, and two real ones.
BatchFragments == {<<>>, <<" ", " ", " ">>, <<"a">>, <<"a", " ", "b">>}

RECURSIVE SeqsUpTo(_, _)
SeqsUpTo(S, n) ==
    IF n = 0 THEN {<<>>}
    ELSE LET shorter == SeqsUpTo(S, n - 1)
         IN  shorter \cup {Append(s, x) : s \in {t \in shorter : Len(t) = n - 1}, x \in S}

\* The requests /classify-explain-batch is sent: every list of up to MaxBatch
\* fragments, and lists at and just above the maximum size.
BatchRequests ==
    {[texts |-> ts] : ts \in SeqsUpTo(BatchFragments, MaxBatch)}
    \cup {[texts |-> [k \in 1..n |-> <<"a">>]] : n \in {max_items, max_items + 1}}

\* --------------------------------------------------------------------- state

VARIABLES
    texts,      \* get_probabilities_for_lime's argument
    i,          \* the loop variable of "for i in range(0, len(texts), chunk_size)"
    all_probs,  \* the rows collected so far
    cpc,        \* where the client is: "loop", "post" (a request is out), "done"
    returned,   \* <<matrix>> once the client has returned, <<>> before
    calls,      \* history: the requests posted, [i, texts] each
    outcomes,   \* history: what each posted request came to
    model,      \* ml_service.model
    tokenizer,  \* ml_service.tokenizer
    lpc,        \* lifespan's call of ml_service.load: "init", "done", "failed"
    tokenizer_calls,  \* history: how often self.tokenizer(...) was invoked
    model_calls,      \* history: how often self.model(**inputs) was invoked
    reply       \* history: the last call the service handled and its result

clientVars == <<texts, i, all_probs, cpc, returned, calls, outcomes>>
serviceVars == <<model, tokenizer, lpc, tokenizer_calls, model_calls, reply>>
vars == <<clientVars, serviceVars>>

\* MLService.__init__, and nothing handled yet.
ServiceConstructed ==
    /\ model = None
    /\ tokenizer = None
    /\ lpc = "init"
    /\ tokenizer_calls = 0
    /\ model_calls = 0
    /\ reply = [op |-> "none"]

\* The client before it is called.
ClientIdle ==
    /\ texts = <<>>
    /\ i = 0
    /\ all_probs = <<>>
    /\ cpc = "idle"
    /\ returned = <<>>
    /\ calls = <<>>
    /\ outcomes = <<>>

Init ==
    /\ texts \in InputTexts
    /\ i = 0
    /\ all_probs = <<>>
    /\ cpc = "loop"
    /\ returned = <<>>
    /\ calls = <<>>
    /\ outcomes = <<>>
    /\ ServiceConstructed

\* Lines 75-80: a chunk without any valid text is filled with uniform rows and
\* no request is made.
SkipChunk ==
    /\ cpc = "loop"
    /\ i < Len(texts)
    /\ ValidTexts(ChunkAt(texts, i)) = <<>>
    /\ all_probs' = all_probs \o UniformRows(Len(ChunkAt(texts, i)))
    /\ i' = i + chunk_size
    /\ UNCHANGED <<texts, cpc, returned, calls, outcomes, serviceVars>>

\* Lines 75-83: the chunk's valid texts are posted.
PostChunk ==
    /\ cpc = "loop"
    /\ i < Len(texts)
    /\ ValidTexts(ChunkAt(texts, i)) # <<>>
    /\ calls' = Append(calls, [i |-> i, texts |-> ValidTexts(ChunkAt(texts, i))])
    /\ cpc' = "post"
    /\ UNCHANGED <<texts, i, all_probs, returned, outcomes, serviceVars>>

\* Mutant of RequestFails: the failed chunk is filled with uniform rows and the
\* loop goes on with the next chunk.
RequestFailsContinues ==
    /\ cpc = "post"
    /\ \E o \in Outcomes(Len(calls[Len(calls)].texts)) :
        /\ RaisesRequestException(o)
        /\ outcomes' = Append(outcomes, o)
    /\ all_probs' = all_probs \o UniformRows(Len(ChunkAt(texts, i)))
    /\ i' = i + chunk_size
    /\ cpc' = "loop"
    /\ UNCHANGED <<texts, returned, calls, serviceVars>>

\* Mutant of RequestFails: the rows of the earlier chunks are kept and only the
\* rest is filled with uniform rows.
RequestFailsKeepsRows ==
    /\ cpc = "post"
    /\ \E o \in Outcomes(Len(calls[Len(calls)].texts)) :
        /\ RaisesRequestException(o)
        /\ outcomes' = Append(outcomes, o)
    /\ returned' = <<all_probs \o UniformRows(Len(texts) - Len(all_probs))>>
    /\ cpc' = "done"
    /\ UNCHANGED <<texts, i, all_probs, calls, serviceVars>>

\* Lines 94-96: the request raised a RequestException.
RequestFails ==
    /\ cpc = "post"
    /\ \E o \in Outcomes(Len(calls[Len(calls)].texts)) :
        /\ RaisesRequestException(o)
        /\ outcomes' = Append(outcomes, o)
    /\ returned' = <<UniformRows(Len(texts))>>
    /\ cpc' = "done"
    /\ UNCHANGED <<texts, i, all_probs, calls, serviceVars>>

\* Lines 85-93: the response is mapped back onto the chunk.
RequestSucceeds ==
    /\ cpc = "post"
    /\ \E o \in Outcomes(Len(calls[Len(calls)].texts)) :
        /\ ~RaisesRequestException(o)
        /\ outcomes' = Append(outcomes, o)
        /\ LET probs_list == DictGet(o.body, "all_probabilities", <<>>)
               result_map == ResultMap(calls[Len(calls)].texts, probs_list)
           IN  all_probs' = all_probs \o ExpandChunk(ChunkAt(texts, i), result_map)
    /\ i' = i + chunk_size
    /\ cpc' = "loop"
    /\ UNCHANGED <<texts, returned, calls, serviceVars>>

\* Line 97: the loop is over.
Return ==
    /\ cpc = "loop"
    /\ i >= Len(texts)
    /\ returned' = <<all_probs>>
    /\ cpc' = "done"
    /\ UNCHANGED <<texts, i, all_probs, calls, outcomes, serviceVars>>

Next ==
    \/ SkipChunk
    \/ PostChunk
    \/ RequestFails
    \/ RequestSucceeds
    \/ Return

Spec == Init /\ [][Next]_vars

\* The interpreter runs the function on: each iteration is a finite sequence of
\* statements and requests.post is given timeout=180, so a step that can be
\* taken is taken.
FairSpec == Init /\ [][Next]_vars /\ WF_vars(Next)

\* ------------------------------------------------- properties of the client

\* A fragment that is empty or consists of whitespace only.
IsBlank(t) == \A k \in 1..Len(t) : t[k] = " "

\* A row that is exactly the uniform distribution over the labels.
IsUniform(row) ==
    /\ Len(row) = Len(CLASS_NAMES)
    /\ \A k \in 1..Len(row) : row[k] * Len(CLASS_NAMES) = One

\* A mapping read in the label order, a missing label as 0.
InLabelOrder(d) ==
    [k \in 1..Len(CLASS_NAMES) |-> IF CLASS_NAMES[k] \in DOMAIN d THEN d[CLASS_NAMES[k]] ELSE 0]

IsSuccess(o) == o.kind = "http" /\ o.status = 200
SomeRequestFailed == \E k \in 1..Len(outcomes) : ~IsSuccess(outcomes[k])
Done == cpc = "done"
Result == returned[1]

\* The offset of the chunk fragment idx (from 1) lies in.
ChunkStartOf(idx) == ((idx - 1) \div chunk_size) * chunk_size
\* The position (from 1) at which fragment idx was sent in its chunk's request.
SentAt(idx) == Cardinality({j \in (ChunkStartOf(idx) + 1)..idx : ~IsBlank(texts[j])})
\* The list of mappings the k-th response carried.
ProbsOf(k) ==
    IF "all_probabilities" \in DOMAIN outcomes[k].body
    THEN outcomes[k].body.all_probabilities ELSE <<>>
CeilDiv(a, b) == (a + b - 1) \div b

\* C1: whatever the requests come to, the matrix the client returns has exactly
\* len(texts) rows.
C1_RowCount == Done => Len(returned) = 1 /\ Len(Result) = Len(texts)

\* C1 witness: an input of more than two chunks of which one was skipped as
\* blank and the others were answered, returned with one row per fragment.
C1_Witness ==
    /\ Done /\ ~SomeRequestFailed
    /\ Len(texts) > 2 * chunk_size
    /\ Len(calls) = 2
    /\ Len(Result) = Len(texts)

\* The last position, among the first m of the request req, at which the text
\* t was sent; 0 if there is none.
LastSentAt(req, m, t) ==
    LET same == {q \in 1..m : req[q] = t}
    IN  IF same = {} THEN 0 ELSE CHOOSE q \in same : \A r \in same : r <= q

\* The fragments (from 1) of the chunk the k-th request was posted for.
ChunkOfCall(k) ==
    (calls[k].i + 1)..(IF calls[k].i + chunk_size < Len(texts)
                       THEN calls[k].i + chunk_size ELSE Len(texts))

\* C2 as stated: after a run without failure, the row of a non-blank fragment
\* is the distribution returned at the position at which that fragment itself
\* was sent.
C2_OwnPosition ==
    (Done /\ ~SomeRequestFailed) =>
        \A k \in 1..Len(calls) :
            LET probs == ProbsOf(k)
            IN  \A idx \in ChunkOfCall(k) :
                    ~IsBlank(texts[idx]) =>
                        LET p == SentAt(idx)
                        IN  (p <= Len(probs) /\ DOMAIN probs[p] # {}) =>
                                Result[idx] = InLabelOrder(probs[p])

\* C2 as amended: after a run without failure, the row of a non-blank fragment
\* is the distribution returned at the last position, among those the response
\* covers, at which a fragment with the same text was sent in its chunk's
\* request.
C2_LastEqualPosition ==
    (Done /\ ~SomeRequestFailed) =>
        \A k \in 1..Len(calls) :
            LET probs == ProbsOf(k)
                req == calls[k].texts
                m == IF Len(req) < Len(probs) THEN Len(req) ELSE Len(probs)
            IN  \A idx \in ChunkOfCall(k) :
                    ~IsBlank(texts[idx]) =>
                        LET q == LastSentAt(req, m, texts[idx])
                        IN  (q > 0 /\ DOMAIN probs[q] # {}) =>
                                Result[idx] = InLabelOrder(probs[q])

\* C2 witness: a fragment whose text was sent again later in the same request
\* has the row of the later position, which differs from that of its own.
C2_Witness ==
    /\ Done /\ ~SomeRequestFailed
    /\ \E k \in 1..Len(calls) :
        LET probs == ProbsOf(k)
            req == calls[k].texts
            m == IF Len(req) < Len(probs) THEN Len(req) ELSE Len(probs)
        IN  \E idx \in ChunkOfCall(k) :
                /\ ~IsBlank(texts[idx])
                /\ LET q == LastSentAt(req, m, texts[idx])
                        p == SentAt(idx)
                    IN  /\ q > p
                        /\ DOMAIN probs[q] # {}
                        /\ DOMAIN probs[p] # {}
                        /\ Result[idx] = InLabelOrder(probs[q])
                        /\ Result[idx] # InLabelOrder(probs[p])

\* C3: the row of an empty or whitespace-only fragment is exactly uniform.
C3_BlankRowsUniform ==
    Done => \A idx \in 1..Len(texts) : IsBlank(texts[idx]) => IsUniform(Result[idx])

\* C3 witness: without any failure, a chunk with blank and non-blank fragments
\* came back with a uniform row for a blank one and another row for a
\* non-blank one.
C3_Witness ==
    /\ Done /\ ~SomeRequestFailed
    /\ \E idx \in 1..Len(texts), j \in 1..Len(texts) :
        /\ ChunkStartOf(idx) = ChunkStartOf(j)
        /\ IsBlank(texts[idx]) /\ Len(texts[idx]) > 0
        /\ IsUniform(Result[idx])
        /\ ~IsBlank(texts[j])
        /\ ~IsUniform(Result[j])

\* C4: once a request has failed the client has returned, and what it returned
\* is len(texts) rows that are all uniform.
C4_FailureAllUniform ==
    SomeRequestFailed =>
        /\ Done
        /\ Len(returned) = 1
        /\ Len(Result) = Len(texts)
        /\ \A idx \in 1..Len(texts) : IsUniform(Result[idx])

\* C4 witness: a later chunk's request failed after an earlier chunk had given
\* rows that are not uniform, and every row returned is uniform.
C4_Witness ==
    /\ Done /\ SomeRequestFailed
    /\ Len(outcomes) >= 2
    /\ \E k \in 1..Len(all_probs) : ~IsUniform(all_probs[k])
    /\ \A idx \in 1..Len(texts) : IsUniform(Result[idx])

AllNonBlank == \A idx \in 1..Len(texts) : ~IsBlank(texts[idx])

C6_RequestsNonBlank ==
    \A k \in 1..Len(calls) :
        /\ Len(calls[k].texts) >= 1
        /\ Len(calls[k].texts) <= chunk_size
        /\ ValidBatchRequest(calls[k])
        /\ \A p \in 1..Len(calls[k].texts) : ~IsBlank(calls[k].texts[p])
        /\ \E idx \in (calls[k].i + 1)..Len(texts) :
              idx <= calls[k].i + chunk_size /\ ~IsBlank(texts[idx])

\* C6 witness: a blank chunk was passed without a request, and a request went
\* out with fewer fragments than its chunk holds.
C6_Witness ==
    /\ Done /\ ~SomeRequestFailed
    /\ Len(calls) >= 1
    /\ Len(calls) < CeilDiv(Len(texts), chunk_size)
    /\ \E k \in 1..Len(calls) : Len(calls[k].texts) < Cardinality(ChunkOfCall(k))

\* ------------------------------------------------------------- the service

\* Mutant of NotLoaded: only the model is tested.
NotLoadedModelOnly == model = None

\* ml_services.py line 43: not self.model or not self.tokenizer
NotLoaded == model = None \/ tokenizer = None

\* What a call of a method of ml_service comes to: the exception it raises (or
\* NoExc), the value it returns, whether it invoked the tokenizer and the model,
\* and the probabilities the softmax gave.
Raised(exc, tokenized, inferred) ==
    [exc |-> exc, value |-> <<>>, tokenized |-> tokenized, inferred |-> inferred,
     probabilities |-> <<>>]

\* MLService.predict(text), lines 41-60, with inf what tokenizer and model do.
Predict(text, inf) ==
    IF NotLoaded THEN Raised(NotLoadedError, 0, 0)
    ELSE IF inf.raises = "tokenizer" THEN Raised(inf.exc, 1, 0)
    ELSE IF inf.raises = "model" THEN Raised(inf.exc, 1, 1)
    ELSE LET mx == TorchMax(inf.probabilities)
         IN  [exc |-> NoExc, value |-> <<id2label(mx[2]), mx[1]>>,
              tokenized |-> 1, inferred |-> 1, probabilities |-> inf.probabilities]

\* ml_service.<method>(arg): an attribute the object does not have raises
\* AttributeError; predict is the one method with an argument the class defines.
CallMLService(method, arg, inf) ==
    IF method \notin MLServiceAttrs THEN Raised(NoAttributeError(method), 0, 0)
    ELSE Predict(arg, inf)

\* The record of a handled call: what was asked, the model and the tokenizer the
\* service held then, and what came of it.
Handled(op, request, status, body, r) ==
    [op |-> op, request |-> request, handled |-> TRUE,
     model |-> model, tokenizer |-> tokenizer,
     status |-> status, body |-> body, exc |-> r.exc,
     tokenized |-> r.tokenized, inferred |-> r.inferred,
     probabilities |-> r.probabilities]

\* The record of a request the boundary validation rejected: HTTP 422, the
\* handler is not run.
Rejected(op, request) ==
    [op |-> op, request |-> request, handled |-> FALSE,
     model |-> model, tokenizer |-> tokenizer,
     status |-> 422, body |-> [detail |-> "validation error"], exc |-> NoExc,
     tokenized |-> 0, inferred |-> 0, probabilities |-> <<>>]

CanServe == tokenizer_calls < MaxCalls /\ model_calls < MaxCalls

Count(r) ==
    /\ tokenizer_calls' = tokenizer_calls + r.tokenized
    /\ model_calls' = model_calls + r.inferred

\* main.py lifespan: ml_service.load(MODEL_PATH), once, at startup
\* (ml_services.py lines 30-39).
Load ==
    /\ lpc = "init"
    /\ \E o \in LoadOutcomes :
        /\ model' = IF o \in {"to_raises", "tokenizer_raises", "ok"} THEN "model" ELSE model
        /\ tokenizer' = IF o = "ok" THEN "tokenizer" ELSE tokenizer
        /\ lpc' = IF o = "ok" THEN "done" ELSE "failed"
    /\ UNCHANGED <<clientVars, tokenizer_calls, model_calls, reply>>

\* Some caller invokes ml_service.predict(text) directly.
PredictCall ==
    /\ CanServe
    /\ \E request \in ContractRequests \cup {[text |-> t] : t \in BatchFragments},
          inf \in Inferences :
        LET r == Predict(request.text, inf)
        IN  /\ reply' = Handled("predict", request, 0, [value |-> r.value], r)
            /\ Count(r)
    /\ UNCHANGED <<clientVars, model, tokenizer, lpc>>

\* POST /classify with a text shorter than min_length.
RejectContract ==
    /\ \E request \in ContractRequests :
        /\ ~ValidContractRequest(request)
        /\ reply' = Rejected("classify", request)
    /\ UNCHANGED <<clientVars, model, tokenizer, lpc, tokenizer_calls, model_calls>>

\* endpoints.py classify_contract, lines 22-29.
ClassifyResponse(r) ==
    IF r.exc # NoExc
    THEN [status |-> 500, body |-> [detail |-> r.exc.msg]]
    ELSE [status |-> 200,
          body |-> [predicted_category |-> r.value[1], confidence_score |-> r.value[2]]]

ClassifyContract ==
    /\ CanServe
    /\ \E request \in ContractRequests, inf \in Inferences :
        /\ ValidContractRequest(request)
        /\ LET r == CallMLService("predict", request.text, inf)
                resp == ClassifyResponse(r)
            IN  /\ reply' = Handled("classify", request, resp.status, resp.body, r)
                /\ Count(r)
    /\ UNCHANGED <<clientVars, model, tokenizer, lpc>>

\* POST /classify-explain-batch with no fragment or more than max_items.
RejectBatch ==
    /\ \E request \in BatchRequests :
        /\ ~ValidBatchRequest(request)
        /\ reply' = Rejected("batch", request)
    /\ UNCHANGED <<clientVars, model, tokenizer, lpc, tokenizer_calls, model_calls>>

\* Mutant of BatchResponse: the exception is swallowed and an empty result is
\* returned.
BatchResponseSwallows(r) ==
    IF r.exc # NoExc
    THEN [status |-> 200, body |-> [all_probabilities |-> <<>>]]
    ELSE [status |-> 200, body |-> [all_probabilities |-> r.value]]

\* endpoints.py classify_contract_explain_batch, lines 31-42.
BatchResponse(r) ==
    IF r.exc # NoExc
    THEN [status |-> 500, body |-> [detail |-> r.exc.msg]]
    ELSE [status |-> 200, body |-> [all_probabilities |-> r.value]]

ClassifyContractExplainBatch ==
    /\ CanServe
    /\ \E request \in BatchRequests, inf \in Inferences :
        /\ ValidBatchRequest(request)
        /\ LET r == CallMLService("predict_explain_batch", request.texts, inf)
                resp == BatchResponse(r)
            IN  /\ reply' = Handled("batch", request, resp.status, resp.body, r)
                /\ Count(r)
    /\ UNCHANGED <<clientVars, model, tokenizer, lpc>>

ServiceInit == ClientIdle /\ ServiceConstructed

ServiceNext ==
    \/ Load
    \/ PredictCall
    \/ RejectContract
    \/ ClassifyContract
    \/ RejectBatch
    \/ ClassifyContractExplainBatch

ServiceSpec == ServiceInit /\ [][ServiceNext]_vars

\* ------------------------------------------------ properties of the service

\* The last call was a batch request that passed validation, taken with the
\* model and the tokenizer loaded.
BatchHandledLoaded ==
    /\ reply.op = "batch"
    /\ reply.handled
    /\ reply.model # None /\ reply.tokenizer # None

\* The tokenizer or the model raised during the last call.
InferenceRaised == reply.tokenized = 1 /\ reply.exc # NoExc

\* A mapping with exactly the labels of CLASS_NAMES.
IsDistribution(d) == DOMAIN d = {CLASS_NAMES[k] : k \in 1..Len(CLASS_NAMES)}

\* C7 as stated: a valid batch request, handled with the model loaded and no
\* inference raising, is answered 200 with one distribution per fragment.
C7_BatchAligned ==
    (BatchHandledLoaded /\ ~InferenceRaised) =>
        /\ reply.status = 200
        /\ "all_probabilities" \in DOMAIN reply.body
        /\ Len(reply.body.all_probabilities) = Len(reply.request.texts)
        /\ \A k \in 1..Len(reply.request.texts) :
              IsDistribution(reply.body.all_probabilities[k])

\* C8 as stated: a valid batch request is answered 200 with the uniform
\* distribution at the position of every blank fragment, and the model is not
\* invoked for a request of blank fragments only.
C8_BatchBlankUniform ==
    (BatchHandledLoaded /\ ~InferenceRaised) =>
        /\ reply.status = 200
        /\ "all_probabilities" \in DOMAIN reply.body
        /\ \A k \in 1..Len(reply.request.texts) :
              IsBlank(reply.request.texts[k]) =>
                  /\ k <= Len(reply.body.all_probabilities)
                  /\ IsDistribution(reply.body.all_probabilities[k])
                  /\ \A name \in DOMAIN reply.body.all_probabilities[k] :
                        reply.body.all_probabilities[k][name] * Len(CLASS_NAMES) = One
        /\ (\A k \in 1..Len(reply.request.texts) : IsBlank(reply.request.texts[k]))
              => reply.inferred = 0

C10_NotLoadedRejected ==
    /\ (lpc # "done" \/ model = None \/ tokenizer = None) =>
          tokenizer_calls = 0 /\ model_calls = 0
    /\ (reply.op \in {"predict", "classify"} /\ reply.handled
            /\ (reply.model = None \/ reply.tokenizer = None)) =>
          /\ reply.exc.type = "RuntimeError"
          /\ reply.exc.msg = "Model is not loaded. Call the load() method first."
          /\ reply.tokenized = 0 /\ reply.inferred = 0
          /\ reply.op = "classify" => reply.status = 500
    /\ (reply.op = "batch" /\ reply.handled
            /\ (reply.model = None \/ reply.tokenizer = None)) =>
          reply.status = 500 /\ reply.tokenized = 0 /\ reply.inferred = 0

\* C10 witness: load failed after setting the model and before setting the
\* tokenizer, and /classify, called then, answered 500 with the
\* model-not-loaded error.
C10_Witness ==
    /\ lpc = "failed"
    /\ model # None /\ tokenizer = None
    /\ reply.op = "classify" /\ reply.handled
    /\ reply.model # None /\ reply.tokenizer = None
    /\ reply.status = 500
    /\ reply.exc = NotLoadedError
    /\ tokenizer_calls = 0

\* The last call was a /classify request in which the service call raised.
ClassifyRaised == reply.op = "classify" /\ reply.handled /\ reply.exc # NoExc

\* C11 as stated: a /classify call in which the adapter raised is answered 500
\* without predicted_category or confidence_score, and the message of any two
\* such answers in a row is the same, whatever the exceptions were.
C11_GenericError ==
    /\ [](ClassifyRaised =>
            /\ reply.status = 500
            /\ DOMAIN reply.body = {"detail"})
    /\ [][(ClassifyRaised /\ ClassifyRaised') =>
            reply'.body.detail = reply.body.detail]_vars

\* C12: a /classify request with a text of fewer than 50 characters, and a batch
\* request of no or more than 5000 fragments, is answered 422 without the handler
\* being run or the tokenizer or the model being invoked; a batch request of 1
\* to 5000 fragments reaches the handler whatever the fragments' lengths.
C12_ValidationFirst ==
    /\ []((reply.op = "classify" /\ Len(reply.request.text) < 50) =>
            /\ reply.status = 422 /\ ~reply.handled
            /\ reply.tokenized = 0 /\ reply.inferred = 0)
    /\ []((reply.op = "batch"
              /\ (Len(reply.request.texts) = 0 \/ Len(reply.request.texts) > 5000)) =>
            /\ reply.status = 422 /\ ~reply.handled
            /\ reply.tokenized = 0 /\ reply.inferred = 0)
    /\ []((reply.op = "batch"
              /\ Len(reply.request.texts) >= 1 /\ Len(reply.request.texts) <= 5000) =>
            reply.handled /\ reply.status # 422)
    /\ [][((reply'.op = "classify" /\ Len(reply'.request.text) < 50)
            \/ (reply'.op = "batch" /\ Len(reply'.request.texts) \notin 1..5000)) =>
              (tokenizer_calls' = tokenizer_calls /\ model_calls' = model_calls)]_vars

\* C12 witness: with the model loaded, a /classify request of 49 characters was
\* answered 422.
C12_Witness ==
    /\ lpc = "done"
    /\ reply.op = "classify"
    /\ Len(reply.request.text) = 49
    /\ reply.status = 422
    /\ ~reply.handled

\* The last call was a predict, direct or through /classify, that returned.
PredictReturned ==
    reply.op \in {"predict", "classify"} /\ reply.handled /\ reply.exc = NoExc

\* The label and the confidence score the last call returned.
ReturnedLabel ==
    IF reply.op = "predict" THEN reply.body.value[1] ELSE reply.body.predicted_category
ReturnedScore ==
    IF reply.op = "predict" THEN reply.body.value[2] ELSE reply.body.confidence_score

\* C13: the confidence score predict returns is the greatest value of the
\* probabilities computed for the text, and the label is the Label Set's name
\* at an index that holds that greatest value.
C13_ArgmaxLabel ==
    PredictReturned =>
        /\ Len(reply.probabilities) = Len(CLASS_NAMES)
        /\ \A k \in 1..Len(reply.probabilities) : reply.probabilities[k] <= ReturnedScore
        /\ \E k \in 1..Len(reply.probabilities) :
              /\ reply.probabilities[k] = ReturnedScore
              /\ CLASS_NAMES[k] = ReturnedLabel

\* C13 witness: /classify returned the second label with the score 40 for
\* probabilities whose greatest value 40 stands at the second and third index.
C13_Witness ==
    /\ PredictReturned
    /\ reply.op = "classify"
    /\ reply.status = 200
    /\ reply.probabilities = <<10, 40, 40, 5, 5>>
    /\ ReturnedScore = 40
    /\ ReturnedLabel = "NDA"

\* The k-th request was answered with success.
Answered(k) == k <= Len(outcomes) /\ IsSuccess(outcomes[k])

\* The fragments of the k-th request's chunk that were sent but for which the
\* lookup built from the k-th response has no entry.
Unanswered(k) ==
    LET probs == ProbsOf(k)
        req == calls[k].texts
        m == IF Len(req) < Len(probs) THEN Len(req) ELSE Len(probs)
    IN  {idx \in ChunkOfCall(k) :
            ~IsBlank(texts[idx]) /\ LastSentAt(req, m, texts[idx]) = 0}

\* C14: after a request was answered with success, every fragment that was
\* sent and has no entry in the response lookup has the uniform row at its
\* position, the rows collected cover the chunk with one row per fragment, and
\* the client is not stopped: it is at the next chunk, or further, and can
\* take its next step unless a later request failed.
C14_MissingEntryUniform ==
    \A k \in 1..Len(calls) :
        Answered(k) =>
            /\ Len(all_probs) >= Min(calls[k].i + chunk_size, Len(texts))
            /\ cpc = "loop" => Len(all_probs) = Min(i, Len(texts))
            /\ \A idx \in Unanswered(k) : IsUniform(all_probs[idx])
            /\ i >= calls[k].i + chunk_size
            /\ ~SomeRequestFailed => (Done \/ ENABLED Next)
            /\ (Done /\ ~SomeRequestFailed) =>
                  \A idx \in Unanswered(k) : IsUniform(Result[idx])

\* C14 witness: the first response had fewer mappings than fragments sent, a
\* fragment of its chunk whose own row came back not uniform is followed by one
\* without an entry whose row is uniform, and the next chunk was requested and
\* gave a row that is not uniform.
C14_Witness ==
    /\ Done /\ ~SomeRequestFailed
    /\ Len(calls) >= 2
    /\ Len(ProbsOf(1)) > 0
    /\ Len(ProbsOf(1)) < Len(calls[1].texts)
    /\ \E idx \in Unanswered(1) : IsUniform(Result[idx])
    /\ \E idx \in ChunkOfCall(1) : ~IsUniform(Result[idx])
    /\ \E idx \in ChunkOfCall(2) : ~IsUniform(Result[idx])

\* C15: once a request has failed the client has returned and no request is
\* posted any more, so the chunks after the failing one are never sent; no
\* execution posts more than ceil(N/64) requests for N fragments; and every
\* execution comes to its return.
C15_FailureStops ==
    /\ [](SomeRequestFailed => (Done /\ ~ENABLED Next))
    /\ [][SomeRequestFailed => (calls' = calls /\ outcomes' = outcomes)]_vars
    /\ [](Len(calls) <= CeilDiv(Len(texts), chunk_size))
    /\ <>Done

\* C15 witness: the first of three chunks' requests failed and the client has
\* returned without sending the two later chunks, which hold fragments that
\* are not blank.
C15_Witness ==
    /\ Done /\ SomeRequestFailed
    /\ Len(calls) = 1
    /\ calls[1].i = 0
    /\ Len(texts) > 2 * chunk_size
    /\ \E idx \in (chunk_size + 1)..(2 * chunk_size) : ~IsBlank(texts[idx])
    /\ \E idx \in (2 * chunk_size + 1)..Len(texts) : ~IsBlank(texts[idx])

\* The sum of a row's values.
RECURSIVE SumOf(_)
SumOf(row) == IF row = <<>> THEN 0 ELSE Head(row) + SumOf(Tail(row))

\* The row is the mapping d read label by label in the order of CLASS_NAMES,
\* with 0 for a label d does not have.
BuiltFrom(row, d) ==
    /\ DOMAIN d # {}
    /\ \A j \in 1..Len(CLASS_NAMES) :
          row[j] = (IF CLASS_NAMES[j] \in DOMAIN d THEN d[CLASS_NAMES[j]] ELSE 0)

\* The mappings returned for the chunk fragment idx lies in; none if that
\* chunk's request was not made or not answered with success.
MappingsFor(idx) ==
    {ProbsOf(k)[q] : <<k, q>> \in
        {kq \in (1..Len(outcomes)) \X (1..chunk_size) :
            /\ calls[kq[1]].i = ChunkStartOf(idx)
            /\ kq[2] <= Len(ProbsOf(kq[1]))}}

\* C16: every row returned has one value per label of CLASS_NAMES, five, and
\* is either a fallback row, uniform with the sum 1, or a mapping returned for
\* its chunk read in the order of CLASS_NAMES with 0 for each label the mapping
\* lacks (its sum is then the sum of the mapping's values under the labels
\* that match, which need not be 1).
C16_RowShape ==
    Done =>
        \A idx \in 1..Len(Result) :
            /\ Len(Result[idx]) = Len(CLASS_NAMES)
            /\ Len(Result[idx]) = 5
            /\ \/ IsUniform(Result[idx]) /\ SumOf(Result[idx]) = One
               \/ \E d \in MappingsFor(idx) : BuiltFrom(Result[idx], d)

\* C16 witness: a returned row was built from a mapping with a label outside
\* CLASS_NAMES; it has 0 for the four labels the mapping lacks and sums to
\* 0.7, next to a fallback row that sums to 1.
C16_Witness ==
    /\ Done /\ ~SomeRequestFailed
    /\ \E idx \in 1..Len(Result) :
        /\ BuiltFrom(Result[idx], DistPartial)
        /\ DistPartial \in MappingsFor(idx)
        /\ Result[idx] = <<0, 70, 0, 0, 0>>
        /\ SumOf(Result[idx]) # One
    /\ \E idx \in 1..Len(Result) :
        IsUniform(Result[idx]) /\ SumOf(Result[idx]) = One

====
